---- MODULE Spec2Model ----
(***************************************************************************)
(* Model of lightning/src/onion_message/dns_resolution.rs: the bLIP 32     *)
(* DNSResolverMessage codec and the BIP 353 HumanReadableName codec.       *)
(*                                                                         *)
(* A Rust String is modelled as the sequence of its UTF-8 bytes, so that   *)
(* len() is the byte length, as in Rust.  A reader is a byte sequence and  *)
(* a position.  The module is a pure codec, so a state holds the last call *)
(* (op, arg), the instance it produced (hrn / msg), the instance it was    *)
(* derived from (prev / pmsg), the writer's sink and the decoder's result. *)
(***************************************************************************)
EXTENDS Integers, Sequences, FiniteSets, TLC

VARIABLES op, arg, hrn, prev, sink, res, msg, pmsg, name_rule

vars == <<op, arg, hrn, prev, sink, res, msg, pmsg, name_rule>>

(***************************************************************************)
(* Bounds of the explored inputs.                                          *)
(***************************************************************************)
MaxPart == 2     \* characters in an enumerated user or domain part
MaxText == 3     \* characters in an enumerated user@domain text
MaxWire == 4     \* bytes in an enumerated decoder input
MaxProof == 2    \* bytes in an enumerated proof

(***************************************************************************)
(* Characters, as UTF-8 byte sequences.                                    *)
(***************************************************************************)
ChA == <<97>>               \* 'a'
ChUpper == <<90>>           \* 'Z'
ChDigit == <<49>>           \* '1'
ChHyphen == <<45>>          \* '-'
ChDot == <<46>>             \* '.'
ChAt == <<64>>              \* '@'
ChBitcoin == <<226, 130, 191>>   \* U+20BF, the BIP 353 prefix
ChAUml == <<195, 164>>      \* U+00E4, a non-ASCII letter

TextChars == {ChA, ChHyphen, ChDot, ChAt, ChBitcoin, ChAUml}

RECURSIVE Flatten(_)
Flatten(cs) == IF cs = <<>> THEN <<>> ELSE Head(cs) \o Flatten(Tail(cs))

\* Every string of at most n characters of the set chars.
StringsOver(chars, n) == {Flatten(cs) : cs \in UNION {[1..k -> chars] : k \in 0..n}}

Strings(n) == StringsOver(TextChars, n)

\* The string of k letters 'a'.
Pad(k) == [i \in 1..k |-> 97]

(***************************************************************************)
(* Standard-library string operations used by the code.                    *)
(***************************************************************************)
IsCont(b) == b \in 128..191

\* Number of continuation bytes a UTF-8 lead byte announces.
Need(b) ==
  CASE b \in 194..223 -> 1
    [] b \in 224..239 -> 2
    [] b \in 240..244 -> 3
    [] OTHER -> 0

\* Range restrictions on the byte after a lead byte (overlong forms,
\* surrogates, code points above U+10FFFF).
SecondOk(b, x) ==
  /\ b = 224 => x >= 160
  /\ b = 237 => x <= 159
  /\ b = 240 => x >= 144
  /\ b = 244 => x <= 143

\* Well-formed UTF-8: every byte is ASCII, a lead byte followed by the
\* continuation bytes it announces, or a continuation byte of such a lead.
utf8_valid(s) ==
  \A i \in 1..Len(s) :
    LET b == s[i] IN
    \/ b < 128
    \/ /\ Need(b) > 0
       /\ i + Need(b) <= Len(s)
       /\ \A k \in 1..Need(b) : IsCont(s[i + k])
       /\ SecondOk(b, s[i + 1])
    \/ /\ IsCont(b)
       /\ \E k \in 1..3 :
            /\ i - k >= 1
            /\ Need(s[i - k]) >= k
            /\ \A j \in (i - k + 1)..(i - 1) : IsCont(s[j])

\* String::from_utf8(bytes).is_ok()
from_utf8(bytes) == utf8_valid(bytes)

StartsWith(s, p) == Len(s) >= Len(p) /\ SubSeq(s, 1, Len(p)) = p

\* Variant of strip_prefix: every leading occurrence is removed
\* (str::trim_start_matches).
RECURSIVE strip_prefix_all(_, _)
strip_prefix_all(s, p) ==
  IF StartsWith(s, p) THEN strip_prefix_all(SubSeq(s, Len(p) + 1, Len(s)), p) ELSE s

\* str::strip_prefix(c).unwrap_or(s): one leading occurrence is removed.
strip_prefix(s, p) == IF StartsWith(s, p) THEN SubSeq(s, Len(p) + 1, Len(s)) ELSE s

\* str::split_once("@"): split at the first occurrence of the delimiter byte.
split_once(s, d) ==
  LET hits == {i \in 1..Len(s) : s[i] = d}
  IN IF hits = {} THEN [some |-> FALSE, before |-> <<>>, after |-> <<>>]
     ELSE LET i == CHOOSE j \in hits : \A k \in hits : j <= k
          IN [some |-> TRUE, before |-> SubSeq(s, 1, i - 1),
              after |-> SubSeq(s, i + 1, Len(s))]

\* `n as u8`
as_u8(n) == n % 256

(***************************************************************************)
(* Hostname validation (crate::util::ser::Hostname).                       *)
(***************************************************************************)
IsAlnum(b) == b \in 48..57 \cup 65..90 \cup 97..122

str_is_valid_hostname(s) ==
  /\ Len(s) <= 255
  /\ \A i \in 1..Len(s) : IsAlnum(s[i]) \/ s[i] = 45 \/ s[i] = 46
  /\ \A i \in 1..Len(s) : s[i] = 45 =>
        /\ i > 1 /\ s[i - 1] # 46
        /\ i < Len(s) /\ s[i + 1] # 46

(***************************************************************************)
(* HumanReadableName                                                       *)
(***************************************************************************)
\* Variant of REQUIRED_EXTRA_LEN: the trailing `+ 1` is forgotten.
REQUIRED_EXTRA_LEN_no_plus_one == Len(".user._bitcoin-payment.")

REQUIRED_EXTRA_LEN == Len(".user._bitcoin-payment.") + 1

NameErr == [ok |-> FALSE, user |-> <<>>, domain |-> <<>>]

\* Variant of new: the length test is `>=` instead of `>`.
new_off_by_one(user, domain) ==
  IF Len(user) + Len(domain) + REQUIRED_EXTRA_LEN >= 255 THEN NameErr
  ELSE IF user = <<>> \/ domain = <<>> THEN NameErr
  ELSE IF ~str_is_valid_hostname(user) \/ ~str_is_valid_hostname(domain) THEN NameErr
  ELSE [ok |-> TRUE, user |-> user, domain |-> domain]

\* Variant of new: the emptiness test is missing.
new_no_empty_check(user, domain) ==
  IF Len(user) + Len(domain) + REQUIRED_EXTRA_LEN > 255 THEN NameErr
  ELSE IF ~str_is_valid_hostname(user) \/ ~str_is_valid_hostname(domain) THEN NameErr
  ELSE [ok |-> TRUE, user |-> user, domain |-> domain]

new(user, domain) ==
  IF Len(user) + Len(domain) + REQUIRED_EXTRA_LEN > 255 THEN NameErr
  ELSE IF user = <<>> \/ domain = <<>> THEN NameErr
  ELSE IF ~str_is_valid_hostname(user) \/ ~str_is_valid_hostname(domain) THEN NameErr
  ELSE [ok |-> TRUE, user |-> user, domain |-> domain]

\* Variant of from_encoded: the BIP 353 prefix is not stripped.
from_encoded_no_strip(encoded) ==
  LET sp == split_once(encoded, 64)
  IN IF sp.some THEN new(sp.before, sp.after) ELSE NameErr

from_encoded(encoded) ==
  LET sp == split_once(strip_prefix(encoded, ChBitcoin), 64)
  IN IF sp.some THEN new(sp.before, sp.after) ELSE NameErr

\* Variant of write: the second prefix repeats the user's length.
HumanReadableName_write_dup_len(h) ==
  <<as_u8(Len(h.user))>> \o h.user \o <<as_u8(Len(h.user))>> \o h.domain

HumanReadableName_write(h) ==
  <<as_u8(Len(h.user))>> \o h.user \o <<as_u8(Len(h.domain))>> \o h.domain

(***************************************************************************)
(* Readers (crate::io::Read over a byte slice, crate::util::ser).          *)
(* A reader is the input r and the number of bytes consumed so far.        *)
(***************************************************************************)
\* Read::read_exact: n bytes from position pos, or an error if fewer remain.
read_exact(r, pos, n) ==
  IF pos + n <= Len(r)
  THEN [ok |-> TRUE, bytes |-> SubSeq(r, pos + 1, pos + n), pos |-> pos + n]
  ELSE [ok |-> FALSE, bytes |-> <<>>, pos |-> Len(r)]

\* <u8 as Readable>::read
u8_read(r, pos) ==
  LET b == read_exact(r, pos, 1)
  IN [ok |-> b.ok, val |-> IF b.ok THEN b.bytes[1] ELSE 0, pos |-> b.pos]

\* Variant of the scratch buffer: one byte short.
READ_BYTES_LEN_short == 255 - 1

\* The scratch buffer of HumanReadableName::read: `[0; 255]`.
READ_BYTES_LEN == 255

\* read_exact(&mut buf[..n]): the first n bytes of buf are overwritten.
fill(buf, bytes) ==
  [i \in 1..Len(buf) |-> IF i <= Len(bytes) THEN bytes[i] ELSE buf[i]]

DecodeResult(status, value, pos, user, domain, buf) ==
  [status |-> status, value |-> value, pos |-> pos,
   user |-> user, domain |-> domain, read_bytes |-> buf]

\* HumanReadableName::read.  status is "Ok", "ShortRead", "InvalidValue",
\* or "panic" when a slice index is out of the buffer's range.
HumanReadableName_read(r) ==
  LET read_bytes0 == [i \in 1..READ_BYTES_LEN |-> 0]
      user_len == u8_read(r, 0)
  IN
  IF ~user_len.ok
  THEN DecodeResult("ShortRead", NameErr, user_len.pos, <<>>, <<>>, read_bytes0)
  ELSE IF user_len.val > Len(read_bytes0)
  THEN DecodeResult("panic", NameErr, user_len.pos, <<>>, <<>>, read_bytes0)
  ELSE
  LET ur == read_exact(r, user_len.pos, user_len.val) IN
  IF ~ur.ok
  THEN DecodeResult("ShortRead", NameErr, ur.pos, <<>>, <<>>, read_bytes0)
  ELSE
  LET read_bytes1 == fill(read_bytes0, ur.bytes)
      user_bytes == SubSeq(read_bytes1, 1, user_len.val)
  IN
  IF ~from_utf8(user_bytes)
  THEN DecodeResult("InvalidValue", NameErr, ur.pos, <<>>, <<>>, read_bytes1)
  ELSE
  LET user == user_bytes
      domain_len == u8_read(r, ur.pos)
  IN
  IF ~domain_len.ok
  THEN DecodeResult("ShortRead", NameErr, domain_len.pos, user, <<>>, read_bytes1)
  ELSE IF domain_len.val > Len(read_bytes1)
  THEN DecodeResult("panic", NameErr, domain_len.pos, user, <<>>, read_bytes1)
  ELSE
  LET dr == read_exact(r, domain_len.pos, domain_len.val) IN
  IF ~dr.ok
  THEN DecodeResult("ShortRead", NameErr, dr.pos, user, <<>>, read_bytes1)
  ELSE
  LET read_bytes2 == fill(read_bytes1, dr.bytes)
      domain_bytes == SubSeq(read_bytes2, 1, domain_len.val)
  IN
  IF ~from_utf8(domain_bytes)
  THEN DecodeResult("InvalidValue", NameErr, dr.pos, user, <<>>, read_bytes2)
  ELSE
  LET domain == domain_bytes
      h == new(user, domain)
  IN DecodeResult(IF h.ok THEN "Ok" ELSE "InvalidValue", h, dr.pos,
                  user, domain, read_bytes2)

(***************************************************************************)
(* DNSResolverMessage                                                      *)
(***************************************************************************)
DNSSEC_QUERY_TYPE == 65536
DNSSEC_PROOF_TYPE == 65538

NoMsg == [kind |-> "none", name |-> <<>>, proof |-> <<>>]
DNSSECQuery(name) == [kind |-> "DNSSECQuery", name |-> name, proof |-> <<>>]
DNSSECProof(name, proof) == [kind |-> "DNSSECProof", name |-> name, proof |-> proof]

\* Variant of is_known_type: a range test instead of the two tags.
is_known_type_range(t) ==
  CASE DNSSEC_QUERY_TYPE <= t /\ t <= DNSSEC_PROOF_TYPE -> TRUE
    [] OTHER -> FALSE

is_known_type(t) ==
  CASE t = DNSSEC_QUERY_TYPE \/ t = DNSSEC_PROOF_TYPE -> TRUE
    [] OTHER -> FALSE

\* Variant of tlv_type: both variants report the query tag.
tlv_type_same(m) ==
  CASE m.kind = "DNSSECQuery" -> DNSSEC_QUERY_TYPE
    [] m.kind = "DNSSECProof" -> DNSSEC_QUERY_TYPE

tlv_type(m) ==
  CASE m.kind = "DNSSECQuery" -> DNSSEC_QUERY_TYPE
    [] m.kind = "DNSSECProof" -> DNSSEC_PROOF_TYPE

\* Labels of a name: the lengths of the runs between dots.
LabelLens(s) ==
  LET dots == {0, Len(s) + 1} \cup {i \in 1..Len(s) : s[i] = 46}
  IN {j - i - 1 : <<i, j>> \in {p \in dots \X dots :
        p[1] < p[2] /\ ~\E k \in dots : p[1] < k /\ k < p[2]}}

MAX_LABEL_LEN == 63

\* The structural constraints the external Name type may put on a hostname;
\* which one it is is fixed per behaviour by name_rule.
NameRules == {"hostname", "no_empty_label", "label_le_63"}

NameStructureOk(rule, s) ==
  CASE rule = "hostname" -> TRUE
    [] rule = "no_empty_label" -> 0 \notin LabelLens(s)
    [] rule = "label_le_63" -> \A n \in LabelLens(s) : n <= MAX_LABEL_LEN

\* Name::try_from(String): a non-empty validated hostname of at most 255
\* bytes that meets the structural constraint.
Name_try_from(rule, s) ==
  IF s # <<>> /\ str_is_valid_hostname(s) /\ NameStructureOk(rule, s)
  THEN [ok |-> TRUE, name |-> s]
  ELSE [ok |-> FALSE, name |-> <<>>]

\* <Vec<u8> as Writeable>::write: big-endian u16 length, then the bytes.
Vec_write(v) == <<Len(v) \div 256, Len(v) % 256>> \o v

\* <Vec<u8> as Readable>::read.  A prefix of 0xffff announces at least
\* 65535 bytes.
Vec_read(r, pos) ==
  LET l == read_exact(r, pos, 2) IN
  IF ~l.ok THEN [ok |-> FALSE, bytes |-> <<>>, pos |-> l.pos]
  ELSE read_exact(r, l.pos, l.bytes[1] * 256 + l.bytes[2])

\* Hostname::read: a one-byte length, that many bytes, hostname validation.
Hostname_read(r, pos) ==
  LET len == u8_read(r, pos) IN
  IF ~len.ok THEN [status |-> "ShortRead", s |-> <<>>, pos |-> len.pos]
  ELSE LET b == read_exact(r, len.pos, len.val) IN
       IF ~b.ok THEN [status |-> "ShortRead", s |-> <<>>, pos |-> b.pos]
       ELSE IF from_utf8(b.bytes) /\ str_is_valid_hostname(b.bytes)
            THEN [status |-> "Ok", s |-> b.bytes, pos |-> b.pos]
            ELSE [status |-> "InvalidValue", s |-> <<>>, pos |-> b.pos]

\* Variant of write: the proof is written without its length prefix.
DNSResolverMessage_write_raw_proof(m) ==
  CASE m.kind = "DNSSECQuery" -> <<as_u8(Len(m.name))>> \o m.name
    [] m.kind = "DNSSECProof" -> <<as_u8(Len(m.name))>> \o m.name \o m.proof

DNSResolverMessage_write(m) ==
  CASE m.kind = "DNSSECQuery" -> <<as_u8(Len(m.name))>> \o m.name
    [] m.kind = "DNSSECProof" ->
         <<as_u8(Len(m.name))>> \o m.name \o Vec_write(m.proof)

MsgResult(status, value, pos) == [status |-> status, value |-> value, pos |-> pos]

DNSResolverMessage_read(rule, r, message_type) ==
  CASE message_type = DNSSEC_QUERY_TYPE ->
         LET s == Hostname_read(r, 0) IN
         IF s.status # "Ok" THEN MsgResult(s.status, NoMsg, s.pos)
         ELSE LET name == Name_try_from(rule, s.s) IN
              IF ~name.ok THEN MsgResult("InvalidValue", NoMsg, s.pos)
              ELSE MsgResult("Ok", DNSSECQuery(name.name), s.pos)
    [] message_type = DNSSEC_PROOF_TYPE ->
         LET s == Hostname_read(r, 0) IN
         IF s.status # "Ok" THEN MsgResult(s.status, NoMsg, s.pos)
         ELSE LET name == Name_try_from(rule, s.s) IN
              IF ~name.ok THEN MsgResult("InvalidValue", NoMsg, s.pos)
              ELSE LET proof == Vec_read(r, s.pos) IN
                   IF ~proof.ok THEN MsgResult("ShortRead", NoMsg, proof.pos)
                   ELSE MsgResult("Ok", DNSSECProof(name.name, proof.bytes), proof.pos)
    [] OTHER -> MsgResult("InvalidValue", NoMsg, 0)

(***************************************************************************)
(* Inputs                                                                  *)
(***************************************************************************)
Budget == 255 - REQUIRED_EXTRA_LEN

\* Lengths around the length budget and around the range of a u8.
LongLens == {Budget \div 2, Budget \div 2 + 1, Budget - 2, Budget - 1, Budget, 255, 256}

PartChars == {ChA, ChHyphen, ChDot, ChAt, ChAUml}

PartInputs ==
  StringsOver(PartChars, MaxPart) \cup {Pad(k) : k \in LongLens}
    \cup {ChUpper, ChDigit, ChUpper \o ChHyphen \o ChDigit}

EncodedInputs ==
  LET base == Strings(MaxText)
  IN base \cup {ChBitcoin \o t : t \in base}
          \cup {ChBitcoin \o ChBitcoin \o t : t \in base}
          \cup {u \o ChAt \o d \o ChAt \o e : u \in {ChA}, d \in {ChA, ChDot}, e \in {ChA, <<>>}}
          \cup {Pad(k) \o ChAt \o d : k \in LongLens, d \in {ChA, <<>>}}

WireBytes == {0, 1, 2, 97, 195, 255}

Framed(u, d) == <<as_u8(Len(u))>> \o u \o <<as_u8(Len(d))>> \o d

WireInputs ==
  UNION {[1..k -> WireBytes] : k \in 0..MaxWire}
    \cup {Framed(u, d) : u \in Strings(MaxPart - 1), d \in Strings(MaxPart - 1)}
    \cup {<<255>> \o Pad(k) \o t : k \in {254, 255}, t \in {<<>>, <<1>>, <<1, 97>>, <<255>> \o Pad(255)}}
    \cup {<<1, 97, 255>> \o Pad(k) : k \in {254, 255}}

Trailers == {<<>>, <<97>>}

NameChars == {ChA, ChHyphen, ChDot, ChAUml}

NameInputs ==
  StringsOver(NameChars, MaxPart)
    \cup {Pad(MAX_LABEL_LEN), Pad(MAX_LABEL_LEN + 1),
          Pad(MAX_LABEL_LEN) \o ChDot \o Pad(MAX_LABEL_LEN), Pad(255), Pad(256)}

ProofBytes == {0, 97, 255}

ProofInputs ==
  UNION {[1..k -> ProofBytes] : k \in 0..MaxProof}
    \cup {[i \in 1..k |-> 7] : k \in {255, 256, 257}}

Tags == {0, 1, 65535, 65536, 65537, 65538, 65539}

MsgWireBytes == {0, 1, 2, 97, 255}

MsgWireInputs ==
  UNION {[1..k -> MsgWireBytes] : k \in 0..MaxWire}
    \cup {<<Len(n)>> \o n \o t : n \in {ChAUml, ChAt, ChA \o ChDot \o ChA, ChHyphen},
                                 t \in {<<>>, <<0, 0>>, <<0, 1, 97>>, <<0, 2, 97>>}}
    \cup {<<255>> \o Pad(k) \o t : k \in {254, 255}, t \in {<<>>, <<0>>, <<0, 0>>}}

(***************************************************************************)
(* State                                                                   *)
(***************************************************************************)
NoRes == DecodeResult("none", NameErr, 0, <<>>, <<>>, <<>>)
\* The calls whose inputs are enumerated.
Calls ==
  {[f |-> "new", user |-> u, domain |-> d] : u \in PartInputs, d \in PartInputs}
    \cup {[f |-> "from_encoded", encoded |-> e] : e \in EncodedInputs}
    \cup {[f |-> "read", r |-> r] : r \in WireInputs}
    \cup {[f |-> "is_known_type", t |-> t] : t \in Tags}
    \cup {[f |-> "query", name |-> n] : n \in NameInputs}
    \cup {[f |-> "proof", name |-> n, proof |-> p] : n \in NameInputs, p \in ProofInputs}
    \cup {[f |-> "msg_read", r |-> r, t |-> t] : r \in MsgWireInputs, t \in Tags}

\* The calls that convert text to a Name.
UsesName(call) ==
  \/ call.f \in {"query", "proof"}
  \/ call.f = "msg_read" /\ is_known_type(call.t)

Init ==
  /\ op = "init" /\ arg \in Calls /\ hrn = NameErr /\ prev = NameErr
  /\ sink = <<>> /\ res = NoRes /\ msg = NoMsg /\ pmsg = NoMsg
  /\ name_rule \in IF UsesName(arg) THEN NameRules ELSE {"hostname"}

\* HumanReadableName::new(user, domain)
New ==
  /\ op = "init" /\ arg.f = "new"
  /\ op' = "new"
  /\ hrn' = new(arg.user, arg.domain)
  /\ UNCHANGED <<arg, prev, sink, res, msg, pmsg, name_rule>>

\* HumanReadableName::from_encoded(encoded), on any text
FromEncoded ==
  /\ op = "init" /\ arg.f = "from_encoded"
  /\ op' = "from_encoded"
  /\ hrn' = from_encoded(arg.encoded)
  /\ UNCHANGED <<arg, prev, sink, res, msg, pmsg, name_rule>>

\* HumanReadableName::from_encoded on the text form of the current instance,
\* with or without the BIP 353 prefix
FromEncodedText ==
  /\ op \in {"new", "from_encoded", "read"} /\ hrn.ok
  /\ \E pre \in {<<>>, ChBitcoin} :
       LET encoded == pre \o hrn.user \o ChAt \o hrn.domain
       IN /\ op' = "from_encoded"
          /\ arg' = [f |-> "from_encoded", encoded |-> encoded]
          /\ hrn' = from_encoded(encoded)
          /\ prev' = hrn /\ sink' = <<>> /\ res' = NoRes
          /\ UNCHANGED <<msg, pmsg, name_rule>>

\* HumanReadableName::write on the current instance
Write ==
  /\ op \in {"new", "from_encoded", "read"} /\ hrn.ok
  /\ op' = "write"
  /\ sink' = HumanReadableName_write(hrn)
  /\ prev' = NameErr /\ res' = NoRes
  /\ UNCHANGED <<arg, hrn, msg, pmsg, name_rule>>

\* HumanReadableName::read on any input
Read ==
  /\ op = "init" /\ arg.f = "read"
  /\ op' = "read"
  /\ res' = HumanReadableName_read(arg.r)
  /\ hrn' = res'.value
  /\ UNCHANGED <<arg, prev, sink, msg, pmsg, name_rule>>

\* HumanReadableName::read on what write produced, possibly followed by more
ReadSink ==
  /\ op = "write"
  /\ \E trail \in Trailers :
       /\ op' = "read"
       /\ arg' = [f |-> "read", r |-> sink \o trail]
       /\ res' = HumanReadableName_read(sink \o trail)
       /\ hrn' = res'.value
       /\ prev' = hrn
       /\ UNCHANGED <<sink, msg, pmsg, name_rule>>

\* DNSResolverMessage::is_known_type(tlv_type)
IsKnownType ==
  /\ op = "init" /\ arg.f = "is_known_type"
  /\ op' = "is_known_type"
  /\ res' = MsgResult("Ok", is_known_type(arg.t), 0)
  /\ UNCHANGED <<arg, hrn, prev, sink, msg, pmsg, name_rule>>

\* DNSResolverMessage::DNSSECQuery(DNSSECQuery(name)), for a name the Name
\* type accepts
MakeQuery ==
  /\ op = "init" /\ arg.f = "query"
  /\ Name_try_from(name_rule, arg.name).ok
  /\ op' = "msg"
  /\ msg' = DNSSECQuery(Name_try_from(name_rule, arg.name).name)
  /\ UNCHANGED <<arg, hrn, prev, sink, res, pmsg, name_rule>>

\* DNSResolverMessage::DNSSECProof(DNSSECProof { name, proof })
MakeProof ==
  /\ op = "init" /\ arg.f = "proof"
  /\ Name_try_from(name_rule, arg.name).ok
  /\ op' = "msg"
  /\ msg' = DNSSECProof(Name_try_from(name_rule, arg.name).name, arg.proof)
  /\ UNCHANGED <<arg, hrn, prev, sink, res, pmsg, name_rule>>

\* DNSResolverMessage::write on the current message
MsgWrite ==
  /\ op \in {"msg", "msg_read"} /\ msg.kind # "none"
  /\ op' = "msg_write"
  /\ sink' = DNSResolverMessage_write(msg)
  /\ pmsg' = NoMsg /\ res' = NoRes
  /\ UNCHANGED <<arg, hrn, prev, msg, name_rule>>

\* DNSResolverMessage::read on any input and tag
MsgRead ==
  /\ op = "init" /\ arg.f = "msg_read"
  /\ op' = "msg_read"
  /\ res' = DNSResolverMessage_read(name_rule, arg.r, arg.t)
  /\ msg' = res'.value
  /\ UNCHANGED <<arg, hrn, prev, sink, pmsg, name_rule>>

\* DNSResolverMessage::read on what write produced, with the message's tag
MsgReadSink ==
  /\ op = "msg_write"
  /\ \E trail \in Trailers :
       /\ op' = "msg_read"
       /\ arg' = [f |-> "msg_read", r |-> sink \o trail, t |-> tlv_type(msg)]
       /\ res' = DNSResolverMessage_read(name_rule, sink \o trail, tlv_type(msg))
       /\ msg' = res'.value
       /\ pmsg' = msg
       /\ UNCHANGED <<hrn, prev, sink, name_rule>>

Next ==
  \/ New \/ FromEncoded \/ FromEncodedText \/ Write \/ Read \/ ReadSink
  \/ IsKnownType \/ MakeQuery \/ MakeProof \/ MsgWrite \/ MsgRead \/ MsgReadSink

Spec == Init /\ [][Next]_vars

(***************************************************************************)
(* Properties                                                              *)
(***************************************************************************)
AllAscii(s) == \A i \in 1..Len(s) : s[i] < 128

\* The documented requirements on the two parts of a HumanReadableName.
ValidParts(user, domain) ==
  /\ Len(user) + Len(domain) + 24 <= 255
  /\ user # <<>> /\ domain # <<>>
  /\ str_is_valid_hostname(user) /\ str_is_valid_hostname(domain)

\* Both one-byte length prefixes of a name, and the bytes they announce,
\* are present in r.
FullyPresent(r) ==
  /\ Len(r) >= 1
  /\ Len(r) >= 2 + r[1]
  /\ Len(r) >= 2 + r[1] + r[2 + r[1]]

\* C1: decoding what write produced for a message m, with the tag
\* tlv_type(m), succeeds and returns a message equal to m.
C1_MessageRoundTrip ==
  (op = "msg_read" /\ pmsg.kind # "none") =>
    /\ arg.t = tlv_type(pmsg)
    /\ res.status = "Ok"
    /\ res.value = pmsg
    /\ msg.kind = pmsg.kind /\ msg.name = pmsg.name /\ msg.proof = pmsg.proof

C1_Witness ==
  /\ op = "msg_read" /\ pmsg.kind = "DNSSECProof"
  /\ Len(pmsg.proof) = 257 /\ Len(pmsg.name) = 255
  /\ res.status = "Ok"

\* C2: reading what write produced for a name h succeeds, returns a value
\* equal to h and consumes exactly 2 + len(user) + len(domain) bytes.
C2_BinaryRoundTrip ==
  (op = "read" /\ prev.ok) =>
    /\ res.status = "Ok"
    /\ hrn.ok /\ hrn.user = prev.user /\ hrn.domain = prev.domain
    /\ res.pos = 2 + Len(prev.user) + Len(prev.domain)

C2_Witness ==
  /\ op = "read" /\ prev.ok /\ res.status = "Ok"
  /\ Len(prev.user) = 230
  /\ Len(arg.r) > res.pos

\* C3: from_encoded of user@domain of an accepted name h, with or without
\* one leading BIP 353 marker, returns a value equal to h; a valid user part
\* never contains '@'.
C3_TextRoundTrip ==
  /\ (op = "from_encoded" /\ prev.ok) =>
       /\ arg.encoded \in {prev.user \o ChAt \o prev.domain,
                           ChBitcoin \o prev.user \o ChAt \o prev.domain}
       /\ hrn.ok /\ hrn.user = prev.user /\ hrn.domain = prev.domain
  /\ (op \in {"new", "from_encoded", "read"} /\ hrn.ok) =>
       \A i \in 1..Len(hrn.user) : hrn.user[i] # 64

C3_Witness ==
  /\ op = "from_encoded" /\ prev.ok /\ hrn.ok
  /\ StartsWith(arg.encoded, ChBitcoin)
  /\ Len(prev.domain) > 1

C5_InvariantsNotBypassed ==
  /\ (op \in {"new", "from_encoded", "read"} /\ hrn.ok) =>
       ValidParts(hrn.user, hrn.domain)
  /\ (op = "read" /\ res.status # "Ok") => ~hrn.ok
  /\ (op = "read" /\ FullyPresent(arg.r)) =>
       LET user == SubSeq(arg.r, 2, 1 + arg.r[1])
           dlen == arg.r[2 + arg.r[1]]
           domain == SubSeq(arg.r, 3 + arg.r[1], 2 + arg.r[1] + dlen)
       IN IF from_utf8(user) /\ from_utf8(domain) /\ ValidParts(user, domain)
          THEN res.status = "Ok" /\ hrn.ok /\ hrn.user = user /\ hrn.domain = domain
          ELSE res.status = "InvalidValue"

C5_Witness ==
  /\ op = "read" /\ FullyPresent(arg.r)
  /\ res.status = "InvalidValue"
  /\ from_utf8(arg.r)
  /\ arg.r[1] = 2 /\ arg.r[2] = 195

\* C6: a length prefix larger than the remaining input, or input that ends
\* before a prefix, makes either decoder return an error and no value,
\* without a panic; the name decoder's slices stay within its 255-byte
\* buffer and the decoded user part is not altered by reading the domain.
C6_TruncatedRejected ==
  /\ op = "read" =>
       /\ res.status \in {"Ok", "ShortRead", "InvalidValue"}
       /\ Len(res.read_bytes) = 255
       /\ Len(res.user) <= Len(res.read_bytes)
       /\ Len(res.domain) <= Len(res.read_bytes)
       /\ ~FullyPresent(arg.r) =>
            /\ res.status \in {"ShortRead", "InvalidValue"}
            /\ ~hrn.ok
       /\ (Len(arg.r) >= 1 /\ Len(arg.r) >= 1 + arg.r[1]
             /\ from_utf8(SubSeq(arg.r, 2, 1 + arg.r[1]))) =>
            res.user = SubSeq(arg.r, 2, 1 + arg.r[1])
  /\ (op = "msg_read" /\ (Len(arg.r) < 1 \/ Len(arg.r) < 1 + arg.r[1])) =>
       /\ res.status \in {"ShortRead", "InvalidValue"}
       /\ arg.t \in {65536, 65538} => res.status = "ShortRead"
       /\ res.value = NoMsg /\ msg = NoMsg
  /\ (op = "msg_read" /\ res.status # "Ok") => msg = NoMsg

C6_Witness ==
  /\ op = "read" /\ res.status = "ShortRead"
  /\ Len(res.user) = 255
  /\ res.read_bytes[255] = 97

\* C7: is_known_type(t) is true exactly for 65536 and 65538, and read with
\* any other tag returns InvalidValue without reading a byte.
C7_TagRecognition ==
  /\ op = "is_known_type" =>
       /\ res.status = "Ok"
       /\ res.value = (arg.t \in {65536, 65538})
  /\ (op = "msg_read" /\ arg.t \notin {65536, 65538}) =>
       /\ res.status = "InvalidValue"
       /\ res.pos = 0
       /\ msg = NoMsg

C7_Witness ==
  /\ op = "msg_read" /\ arg.t = 65537
  /\ arg.r = <<1, 97, 0, 0>>
  /\ res.status = "InvalidValue"

\* C8: from_encoded strips at most one leading BIP 353 marker and splits the
\* rest at the first '@': without an '@' it fails, otherwise its result is
\* new(before, after); so two leading markers, a second '@' and an empty
\* part are all rejected.
C8_FromEncoded ==
  op = "from_encoded" =>
    LET e == arg.encoded
        rest == IF StartsWith(e, ChBitcoin) THEN SubSeq(e, 4, Len(e)) ELSE e
        ats == {i \in 1..Len(rest) : rest[i] = 64}
    IN /\ ats = {} => ~hrn.ok
       /\ \A i \in ats : (\A j \in ats : i <= j) =>
            /\ hrn = new(SubSeq(rest, 1, i - 1), SubSeq(rest, i + 1, Len(rest)))
            /\ (i = 1 \/ i = Len(rest)) => ~hrn.ok
       /\ Cardinality(ats) >= 2 => ~hrn.ok
       /\ StartsWith(e, ChBitcoin \o ChBitcoin) => ~hrn.ok

C8_Witness ==
  /\ op = "from_encoded"
  /\ arg.encoded = ChBitcoin \o ChBitcoin \o ChA \o ChAt \o ChA
  /\ ~hrn.ok

\* C9: every one-byte length prefix written equals the length of the text
\* that follows: each part of a name is at most 230 bytes and a message's
\* name at most 255, a Query is 1 + len(name) bytes and a name
\* 2 + len(user) + len(domain) bytes.
C9_LengthPrefixExact ==
  /\ op = "write" =>
       /\ Len(hrn.user) <= 230 /\ Len(hrn.domain) <= 230
       /\ Len(sink) = 2 + Len(hrn.user) + Len(hrn.domain)
       /\ sink[1] = Len(hrn.user)
       /\ sink[2 + Len(hrn.user)] = Len(hrn.domain)
       /\ SubSeq(sink, 2, 1 + Len(hrn.user)) = hrn.user
       /\ SubSeq(sink, 3 + Len(hrn.user), Len(sink)) = hrn.domain
  /\ op = "msg_write" =>
       /\ Len(msg.name) <= 255
       /\ sink[1] = Len(msg.name)
       /\ SubSeq(sink, 2, 1 + Len(msg.name)) = msg.name
       /\ msg.kind = "DNSSECQuery" => Len(sink) = 1 + Len(msg.name)

C9_Witness ==
  /\ op = "write" /\ Len(hrn.user) = 230 /\ sink[1] = 230

\* C10: tlv_type of every message is a known type, and read with tag t only
\* returns a message whose tlv_type is t: 65536 yields a DNSSECQuery and
\* 65538 a DNSSECProof.
C10_TagDispatch ==
  /\ msg.kind # "none" => is_known_type(tlv_type(msg))
  /\ (op = "msg_read" /\ res.status = "Ok") =>
       /\ msg.kind # "none"
       /\ is_known_type(arg.t)
       /\ tlv_type(msg) = arg.t
       /\ arg.t = 65536 => msg.kind = "DNSSECQuery"
       /\ arg.t = 65538 => msg.kind = "DNSSECProof"

C10_Witness ==
  /\ op = "msg_read" /\ res.status = "Ok"
  /\ pmsg = NoMsg /\ arg.t = 65538
  /\ msg.kind = "DNSSECProof"

====
